---- MODULE Spec2Model ----
(***************************************************************************)
(* CineBrain: catalog fetch -> feature table -> embeddings table -> FAISS  *)
(* index + sidecar -> recommend -> result cards.                           *)
(*                                                                         *)
(* Every stage of the repository is a script that reads the artifact of    *)
(* the stage before it and writes its own.  The artifacts are the state;   *)
(* each stage has its own specification, whose Init draws the stage's      *)
(* input artifact from a bounded set:                                      *)
(*   SpecFetch     etl/fetch_tmdb.py                                       *)
(*   SpecFeatures  models/features.py                                      *)
(*   SpecEmbed     models/embeddings.py                                    *)
(*   SpecBuild     models/vector_index.py, run repeatedly                  *)
(*   SpecQuery     models/recommend.py and app/streamlit_app.py recommend  *)
(*   SpecUI        app/streamlit_app.py, the page script                   *)
(*   SpecRuntime   app/streamlit_app.py fmt_runtime                        *)
(* SpecPipeline runs the four batch scripts one after the other, each on   *)
(* what the one before it wrote.                                           *)
(*                                                                         *)
(* Text is a sequence of one-character strings; None is the text NoneT.    *)
(* Pass-through columns that no stage reads (popularity, poster_path) are  *)
(* left out of the rows.                                                   *)
(***************************************************************************)
EXTENDS Integers, Sequences, FiniteSets, TLC

VARIABLES
    \* etl/fetch_tmdb.py
    fpc,            \* position of main: genres, pages, enrich, done, halted
    page,           \* page number fetch_movies is at
    call,           \* the tmdb_get call in progress or last finished
    movies,         \* fetch_movies' list of base movies
    midx,           \* position of main's loop over movies
    detail,         \* enrich_movie's detail document, between its two requests
    records,        \* main's list of records
    rawTable,       \* the movies table of movies.duckdb (NoTable when absent)
    rawParquet,     \* movies.parquet
    \* models/features.py
    featuresTable,  \* movies_features.parquet
    \* models/embeddings.py
    epc,            \* position of embeddings.main: idle, loop, done
    eattempt,       \* attempts embed_one has made for the current text
    embeddings,     \* main's list of vectors (NoVec for None)
    served,         \* per text: the well-formed vector the service gave, if any
    embeddingsTable,\* movies_embeddings.parquet
    \* models/vector_index.py
    bpc,            \* position of build_faiss_index: idle, indexed
    run,            \* number of build runs started
    pending,        \* the mapping frame a run holds between its two writes
    completed,      \* TRUE when the last started run returned normally
    indexFile,      \* faiss_index.bin
    mapFile,        \* faiss_index_map.parquet
    loaded,         \* what the last load_index / load_index_and_mapping returned
    \* recommend
    result,         \* the last recommend call: its arguments and its outcome
    \* the page script
    upc,            \* position of the page script: input, render, done
    query,          \* the text input
    recs,           \* the frame recommend returned to the page
    cards,          \* the cards rendered so far
    explained,      \* per card: the outcomes of its explanation requests
    warned,         \* TRUE when the page showed "No recommendations found."
    \* fmt_runtime
    runtimeIn,
    runtimeTxt

fetchVars == <<fpc, page, call, movies, midx, detail, records, rawTable, rawParquet>>
embedVars == <<epc, eattempt, embeddings, served, embeddingsTable>>
buildVars == <<bpc, run, pending, completed, indexFile, mapFile, loaded>>
uiVars    == <<upc, query, recs, cards, explained, warned>>
rtVars    == <<runtimeIn, runtimeTxt>>
vars == <<fetchVars, featuresTable, embedVars, buildVars, result, uiVars, rtVars>>

(***************************************************************************)
(* Text                                                                    *)
(***************************************************************************)
NoneT   == <<"None">>           \* Python None in a text column
NoTable == [exists |-> FALSE, rows |-> <<>>]    \* a file that does not exist
File(rows) == [exists |-> TRUE, rows |-> rows]  \* a table file holding rows
SP      == " "

RECURSIVE Join(_, _)
\* sep.join(parts)
Join(parts, sep) ==
    IF parts = <<>> THEN <<>>
    ELSE IF Len(parts) = 1 THEN parts[1]
    ELSE parts[1] \o sep \o Join(Tail(parts), sep)

CommaSp == <<",", " ">>

(***************************************************************************)
(* etl/fetch_tmdb.py                                                       *)
(***************************************************************************)
Retries       == 3      \* for attempt in range(3)
BackoffTenths == 15     \* time.sleep(1.5 * (attempt + 1)), in tenths of a second
Pages         == 2      \* main(pages=...)

\* What one requests.get can come to.
Outcomes == {"ok", "badjson", "http_error", "exception"}

NewCall(site) == [site |-> site, outcomes |-> <<>>, sleeps |-> <<>>, state |-> "running"]

\* the call a request at `site` continues, or the fresh one it starts
CurCall(site) == IF call.site = site /\ call.state = "running" THEN call ELSE NewCall(site)

\* tmdb_get with one attempt more before it gives up
tmdb_get_extra(c, o) ==
    LET n == Len(c.outcomes) + 1
    IN  IF o = "ok"
        THEN [c EXCEPT !.outcomes = Append(@, o), !.state = "returned"]
        ELSE [c EXCEPT !.outcomes = Append(@, o),
                       !.sleeps = Append(@, BackoffTenths * n),
                       !.state = IF n > Retries THEN "raised" ELSE "running"]

\* One pass of tmdb_get's loop: the request, and on failure the sleep; the
\* loop runs out after the Retries-th failure and tmdb_get raises.
tmdb_get(c, o) ==
    LET n == Len(c.outcomes) + 1
    IN  IF o = "ok"
        THEN [c EXCEPT !.outcomes = Append(@, o), !.state = "returned"]
        ELSE [c EXCEPT !.outcomes = Append(@, o),
                       !.sleeps = Append(@, BackoffTenths * n),
                       !.state = IF n >= Retries THEN "raised" ELSE "running"]

TitleA == <<"U", "p">>
Date1  == <<"2", "0", "1", "0", "-", "0", "7", "-", "1", "6">>
\* 24 characters: "Title: " + title + "." has 32
TitleLong == <<"T", "h", "e", " ", "G", "r", "a", "n", "d", " ", "B", "u", "d", "a", "p",
               "e", "s", "t", " ", "H", "o", "t", "e", "l">>
Titles == {NoneT, TitleA, TitleLong}
NoId   == 0

\* the base movies a list page can hold when n movies were listed before it
BaseMovies(n) == {[id |-> i, title |-> t, release_date |-> Date1] : i \in {NoId, n + 1}, t \in Titles}
PageResults(n) == {<<>>} \cup {<<m>> : m \in BaseMovies(n)}

Overview1 == <<"A", " ", "t", "h", "i", "e", "f", ".">>
NameAl == <<"A", "l">>
NameBo == <<"B", "o">>
NameDi == <<"D", "i">>
GenreSci == <<"S", "c", "i">>
Details == {[runtime |-> 134, genres |-> <<GenreSci>>, vote_average |-> 8, overview |-> Overview1],
            [runtime |-> -1, genres |-> <<>>, vote_average |-> -1, overview |-> NoneT]}
Credits == {[cast |-> <<NameAl, NameBo>>,
             crew |-> <<[job |-> "Writer", name |-> NameBo], [job |-> "Director", name |-> NameDi]>>],
            [cast |-> <<>>, crew |-> <<>>]}

RECURSIVE FirstDirector(_)
\* next((c["name"] for c in crew if c.get("job") == "Director"), None)
FirstDirector(crew) ==
    IF crew = <<>> THEN NoneT
    ELSE IF crew[1].job = "Director" THEN crew[1].name
    ELSE FirstDirector(Tail(crew))

First5(s) == SubSeq(s, 1, IF Len(s) < 5 THEN Len(s) ELSE 5)

\* enrich_movie's return value when both requests came back
Extra(d, c) ==
    [runtime |-> d.runtime, genres |-> Join(d.genres, CommaSp),
     cast |-> Join(First5(c.cast), CommaSp), director |-> FirstDirector(c.crew),
     vote_average |-> d.vote_average, overview |-> d.overview]

\* enrich_movie's return value when a request raised: {}, read with .get
NoExtra ==
    [runtime |-> -1, genres |-> NoneT, cast |-> NoneT, director |-> NoneT,
     vote_average |-> -1, overview |-> NoneT]

Record(m, extra) ==
    [id |-> m.id, title |-> m.title, release_date |-> m.release_date,
     vote_average |-> extra.vote_average, runtime |-> extra.runtime,
     overview |-> extra.overview, genres |-> extra.genres, cast |-> extra.cast,
     director |-> extra.director]

OnlyFetch == UNCHANGED <<featuresTable, embedVars, buildVars, result, uiVars, rtVars>>

\* fetch_genres: its request, then main goes on to fetch_movies
FetchGenres ==
    /\ fpc = "genres"
    /\ \E o \in Outcomes :
        LET c == tmdb_get(CurCall("genres"), o)
        IN  /\ call' = c
            /\ fpc' = CASE c.state = "returned" -> "pages"
                        [] c.state = "raised" -> "halted"
                        [] OTHER -> "genres"
    /\ UNCHANGED <<page, movies, midx, detail, records, rawTable, rawParquet>>
    /\ OnlyFetch

\* fetch_movies: the request for one page
FetchPage ==
    /\ fpc = "pages"
    /\ \E o \in Outcomes, rs \in PageResults(Len(movies)) :
        LET c == tmdb_get(CurCall("page"), o)
        IN  /\ call' = c
            /\ IF c.state = "returned"
               THEN /\ movies' = movies \o rs
                    /\ page' = page + 1
                    /\ fpc' = IF page = Pages THEN "enrich" ELSE "pages"
               ELSE /\ UNCHANGED <<movies, page>>
                    /\ fpc' = IF c.state = "raised" THEN "halted" ELSE "pages"
    /\ UNCHANGED <<midx, detail, records, rawTable, rawParquet>>
    /\ OnlyFetch

NoDetail == [runtime |-> -1, genres |-> <<>>, vote_average |-> -1, overview |-> <<"-">>]

\* main's loop body for a movie without an id: m["id"] raises, the except skips it
EnrichSkip ==
    /\ fpc = "enrich" /\ midx <= Len(movies)
    /\ movies[midx].id = NoId
    /\ midx' = midx + 1
    /\ UNCHANGED <<fpc, page, call, movies, detail, records, rawTable, rawParquet>>
    /\ OnlyFetch

\* enrich_movie: the detail request
EnrichDetail ==
    /\ fpc = "enrich" /\ midx <= Len(movies)
    /\ movies[midx].id # NoId
    /\ detail = NoDetail
    /\ \E o \in Outcomes, d \in Details :
        LET c == tmdb_get(CurCall("detail"), o)
        IN  /\ call' = c
            /\ CASE c.state = "returned" ->
                      detail' = d /\ UNCHANGED <<records, midx>>
                 [] c.state = "raised" ->
                      /\ records' = Append(records, Record(movies[midx], NoExtra))
                      /\ midx' = midx + 1
                      /\ UNCHANGED detail
                 [] OTHER -> UNCHANGED <<detail, records, midx>>
    /\ UNCHANGED <<fpc, page, movies, rawTable, rawParquet>>
    /\ OnlyFetch

\* enrich_movie: the credits request, and main's record for the movie
EnrichCredits ==
    /\ fpc = "enrich" /\ midx <= Len(movies)
    /\ detail # NoDetail
    /\ \E o \in Outcomes, cr \in Credits :
        LET c == tmdb_get(CurCall("credits"), o)
        IN  /\ call' = c
            /\ CASE c.state = "returned" ->
                      /\ records' = Append(records, Record(movies[midx], Extra(detail, cr)))
                      /\ midx' = midx + 1
                      /\ detail' = NoDetail
                 [] c.state = "raised" ->
                      /\ records' = Append(records, Record(movies[midx], NoExtra))
                      /\ midx' = midx + 1
                      /\ detail' = NoDetail
                 [] OTHER -> UNCHANGED <<detail, records, midx>>
    /\ UNCHANGED <<fpc, page, movies, rawTable, rawParquet>>
    /\ OnlyFetch

\* main, after the loop: movies.parquet, then the movies table, from records
WriteRaw ==
    /\ fpc = "enrich" /\ midx > Len(movies)
    /\ rawParquet' = File(records)
    /\ rawTable' = File(records)
    /\ fpc' = "done"
    /\ UNCHANGED <<page, call, movies, midx, detail, records>>
    /\ OnlyFetch

FetchIdle ==
    /\ fpc = "idle" /\ page = 1 /\ call = NewCall("none") /\ movies = <<>> /\ midx = 1
    /\ detail = NoDetail /\ records = <<>> /\ rawParquet = NoTable

FetchInit ==
    /\ fpc = "genres" /\ page = 1 /\ call = NewCall("none") /\ movies = <<>> /\ midx = 1
    /\ detail = NoDetail /\ records = <<>> /\ rawParquet = NoTable /\ rawTable = NoTable

FetchNext == FetchGenres \/ FetchPage \/ EnrichSkip \/ EnrichDetail \/ EnrichCredits \/ WriteRaw

(***************************************************************************)
(* models/features.py                                                      *)
(***************************************************************************)
MaxRaw   == 2      \* rows of the movies table
MinBlob  == 30     \* df["text_blob"].str.len() > 30

IsSpace(c) == c \in {" ", "\n", "\t"}

RECURSIVE LStrip(_)
LStrip(s) == IF s # <<>> /\ IsSpace(s[1]) THEN LStrip(Tail(s)) ELSE s

RECURSIVE RStrip(_)
RStrip(s) == IF s # <<>> /\ IsSpace(s[Len(s)]) THEN RStrip(SubSeq(s, 1, Len(s) - 1)) ELSE s

RECURSIVE Collapse(_)
\* re.sub(r"\s+", " ", s): every run of whitespace becomes one space
Collapse(s) ==
    IF s = <<>> THEN <<>>
    ELSE IF IsSpace(s[1]) THEN <<SP>> \o Collapse(LStrip(s))
    ELSE <<s[1]>> \o Collapse(Tail(s))

clean_text(text) == IF text = NoneT THEN <<>> ELSE Collapse(RStrip(LStrip(text)))

PreTitle    == <<"T", "i", "t", "l", "e", ":", " ">>
PreGenres   == <<"G", "e", "n", "r", "e", "s", ":", " ">>
PreCast     == <<"T", "o", "p", " ", "C", "a", "s", "t", ":", " ">>
PreDirector == <<"D", "i", "r", "e", "c", "t", "e", "d", " ", "b", "y", " ">>
FullStop    == <<".">>

\* build_text_blob: row.get(col) is falsy for "" (every column is cleaned first)
build_text_blob(row) ==
    Join(  (IF row.title # <<>> THEN <<PreTitle \o row.title \o FullStop>> ELSE <<>>)
        \o (IF row.overview # <<>> THEN <<row.overview>> ELSE <<>>)
        \o (IF row.genres # <<>> THEN <<PreGenres \o row.genres \o FullStop>> ELSE <<>>)
        \o (IF row.cast # <<>> THEN <<PreCast \o row.cast \o FullStop>> ELSE <<>>)
        \o (IF row.director # <<>> THEN <<PreDirector \o row.director \o FullStop>> ELSE <<>>),
        <<SP>>)

\* x[:4] if isinstance(x, str) and len(x) >= 4 else None, after fillna("")
YearOf(d) == IF d # NoneT /\ Len(d) >= 4 THEN SubSeq(d, 1, 4) ELSE NoneT

\* the row after the cleaning loop, the year column and the text_blob column
Cleaned(r) ==
    [id |-> r.id, release_date |-> r.release_date, vote_average |-> r.vote_average,
     runtime |-> r.runtime, year |-> YearOf(r.release_date),
     title |-> clean_text(r.title), overview |-> clean_text(r.overview),
     genres |-> clean_text(r.genres), cast |-> clean_text(r.cast),
     director |-> clean_text(r.director)]

FeatureRow(r) ==
    LET c == Cleaned(r)
    IN  [id |-> c.id, title |-> c.title, year |-> c.year, release_date |-> c.release_date,
         vote_average |-> c.vote_average, runtime |-> c.runtime, overview |-> c.overview,
         genres |-> c.genres, cast |-> c.cast, director |-> c.director,
         text_blob |-> build_text_blob(c)]

\* the filter with >= for >
InformativeGe(row) == Len(row.text_blob) >= MinBlob

\* df[df["text_blob"].str.len() > 30]
Informative(row) == Len(row.text_blob) > MinBlob

RECURSIVE SelectRows(_, _)
\* df[mask].reset_index(drop=True): the rows whose mask entry is True, in order
SelectRows(rows, mask) ==
    IF rows = <<>> THEN <<>>
    ELSE (IF mask[1] THEN <<rows[1]>> ELSE <<>>) \o SelectRows(Tail(rows), Tail(mask))

\* features.main
FeaturesMain ==
    /\ rawTable.exists
    /\ featuresTable = NoTable
    /\ LET raw == rawTable.rows
           df == [i \in 1..Len(raw) |-> FeatureRow(raw[i])]
       IN  featuresTable' = File(SelectRows(df, [i \in 1..Len(df) |-> Informative(df[i])]))
    /\ UNCHANGED <<fetchVars, embedVars, buildVars, result, uiVars, rtVars>>

TitleX   == <<"X">>
TitleWs  == <<" ", "U", "p", "\n">>
\* 21 characters as they are; with "Title: X." the blob has 9 + 1 + 21 = 31
Overview21 == <<"A", " ", "t", "h", "i", "e", "f", " ", "s", "t", "e", "a", "l", "s",
                " ", "d", "r", "e", "a", "m", ".">>
\* 22 characters raw, 20 cleaned; with "Title: X." the blob has 9 + 1 + 20 = 30
Overview20 == <<"A", " ", "t", "h", "i", "e", "f", " ", " ", "s", "t", "e", "a", "l", "s",
                "\n", "g", "o", "l", "d", ".", " ">>
CastAlBo == <<"A", "l", ",", " ", "B", "o">>

RawRows ==
    [title : {NoneT, TitleX}, overview : {NoneT, Overview21, Overview20},
     genres : {NoneT, GenreSci}, cast : {<<>>, CastAlBo}, director : {NoneT, NameDi},
     release_date : {Date1}, vote_average : {8}, runtime : {134}]

WithId(r, i) ==
    [id |-> i, title |-> r.title, release_date |-> r.release_date,
     vote_average |-> r.vote_average, runtime |-> r.runtime, overview |-> r.overview,
     genres |-> r.genres, cast |-> r.cast, director |-> r.director]

\* the movies tables of n rows
RawTables(n) == {File([i \in 1..n |-> WithId(t[i], i)]) : t \in [1..n -> RawRows]}

(***************************************************************************)
(* models/embeddings.py                                                    *)
(*                                                                         *)
(* A vector is a sequence of entries; an entry is an integer, or NotANum   *)
(* for an entry that is no number.  An optional value is <<>> for None     *)
(* and <<v>> for v.                                                        *)
(***************************************************************************)
MaxFeat      == 2      \* rows of the feature table
EmbedRetries == 3      \* embed_one(retries=3)
NotANum      == 99     \* a list entry that is not int / float
NoVec        == <<>>

Vecs == {<<1, 0>>, <<1, 1>>, <<2>>}
Payloads == Vecs \cup {<<>>, <<1, NotANum>>}

\* The forms genai.embed_content's answer can take.
Shapes == {"obj_values",        \* resp.embedding.values
           "obj_list",          \* resp.embedding is a list
           "obj_other",         \* resp.embedding is neither
           "dict_list",         \* {"embedding": [...]}
           "dict_objvalues",    \* {"embedding": <object with .values>}
           "dict_dictvalues",   \* {"embedding": {"values": [...]}}
           "dict_embeddings",   \* {"embeddings": [{"values": [...]}]}
           "dict_embeddings_empty", \* {"embeddings": []}
           "dict_other",        \* a dict with neither key
           "list",              \* the answer is itself a list
           "raise"}             \* embed_content raises
Responses == [shape : Shapes, payload : Payloads]

\* _is_vector_ok that passes any list
IsVectorOkAnyList(vec) == vec # NoVec

\* _is_vector_ok on an optional list
_is_vector_ok(vec) ==
    /\ vec # NoVec
    /\ Len(vec[1]) > 0
    /\ \A i \in 1..Len(vec[1]) : vec[1][i] # NotANum

\* _extract_vector raises: list(<bound method dict.values>), or [][0]
ExtractRaises(resp) == resp.shape \in {"dict_dictvalues", "dict_embeddings_empty"}

\* _extract_vector, where it returns
_extract_vector(resp) ==
    IF resp.shape \in {"obj_values", "obj_list", "dict_list", "dict_objvalues", "dict_embeddings"}
    THEN <<resp.payload>>
    ELSE NoVec

\* One pass of embed_one's loop: the optional vector it returns from this
\* pass, NoVec when the pass falls through to the sleep.
embed_one_pass(resp) ==
    IF resp.shape = "raise" \/ ExtractRaises(resp) THEN NoVec
    ELSE IF _is_vector_ok(_extract_vector(resp)) THEN _extract_vector(resp)
    ELSE IF resp.shape = "list" /\ _is_vector_ok(<<resp.payload>>) THEN <<resp.payload>>
    ELSE NoVec

\* what the pass obtained from the service, well-formed or not
Obtained(resp) ==
    IF resp.shape = "raise" \/ ExtractRaises(resp) THEN NoVec
    ELSE IF resp.shape = "list" THEN <<resp.payload>>
    ELSE _extract_vector(resp)

OnlyEmbed == UNCHANGED <<fetchVars, featuresTable, buildVars, result, uiVars, rtVars>>

\* embeddings.main up to its loop
EmbedStart ==
    /\ epc = "idle" /\ featuresTable.exists
    /\ epc' = "loop" /\ eattempt' = 0 /\ embeddings' = <<>> /\ served' = <<>>
    /\ UNCHANGED embeddingsTable
    /\ OnlyEmbed

Strip(t) == RStrip(LStrip(t))

\* the claim's words for a vector: non-empty and purely numeric
WellFormed(vec) ==
    vec # NoVec /\ vec[1] # <<>> /\ \A i \in 1..Len(vec[1]) : vec[1][i] \in Int \ {NotANum}

\* served, with what this pass obtained for text i noted if it is the first
\* well-formed vector obtained for it
Noted(i, got) ==
    LET prev == IF Len(served) >= i THEN served[i] ELSE NoVec
        new  == IF prev # NoVec THEN prev ELSE IF WellFormed(got) THEN got ELSE NoVec
    IN  SubSeq(served, 1, i - 1) \o <<new>>

\* embed_one: one pass of its loop for the current text (for a text that is
\* empty after the strip, its return of None with no request); main appends
\* what embed_one returns
EmbedOne ==
    /\ epc = "loop" /\ Len(embeddings) < Len(featuresTable.rows)
    /\ LET i == Len(embeddings) + 1
       IN  IF Strip(featuresTable.rows[i].text_blob) = <<>>
           THEN /\ embeddings' = Append(embeddings, NoVec)
                /\ served' = Noted(i, NoVec)
                /\ UNCHANGED eattempt
           ELSE \E resp \in Responses :
                LET vec == embed_one_pass(resp)
                IN  /\ served' = Noted(i, Obtained(resp))
                    /\ IF vec # NoVec
                       THEN embeddings' = Append(embeddings, vec) /\ eattempt' = 0
                       ELSE IF eattempt + 1 >= EmbedRetries
                       THEN embeddings' = Append(embeddings, NoVec) /\ eattempt' = 0
                       ELSE eattempt' = eattempt + 1 /\ UNCHANGED embeddings
    /\ UNCHANGED <<epc, embeddingsTable>>
    /\ OnlyEmbed

WithEmbedding(r, vec) ==
    [id |-> r.id, title |-> r.title, year |-> r.year, vote_average |-> r.vote_average,
     runtime |-> r.runtime, overview |-> r.overview, genres |-> r.genres,
     director |-> r.director, text_blob |-> r.text_blob, embedding |-> vec]

\* embeddings.main after its loop: the column, the filter, the file
EmbedFinish ==
    /\ epc = "loop" /\ Len(embeddings) = Len(featuresTable.rows)
    /\ LET rows == featuresTable.rows
           df == [i \in 1..Len(rows) |-> WithEmbedding(rows[i], embeddings[i])]
           kept == SelectRows(df, [i \in 1..Len(df) |-> _is_vector_ok(df[i].embedding)])
       IN  embeddingsTable' = File(kept)
    /\ epc' = "done"
    /\ UNCHANGED <<eattempt, embeddings, served>>
    /\ OnlyEmbed

EmbedNext == EmbedStart \/ EmbedOne \/ EmbedFinish

\* two raw rows that features.main keeps, and the feature tables made of them
SampleRawA ==
    [title |-> TitleX, overview |-> Overview21, genres |-> GenreSci, cast |-> CastAlBo,
     director |-> NameDi, release_date |-> Date1, vote_average |-> 8, runtime |-> 134]
SampleRawB ==
    [title |-> TitleWs, overview |-> NoneT, genres |-> GenreSci, cast |-> CastAlBo,
     director |-> NoneT, release_date |-> NoneT, vote_average |-> -1, runtime |-> -1]
SampleRaw == {SampleRawA, SampleRawB}

FeatureTables ==
    UNION {{File([i \in 1..n |-> FeatureRow(WithId(t[i], i))]) : t \in [1..n -> SampleRaw]}
           : n \in 0..MaxFeat}

(***************************************************************************)
(* models/vector_index.py                                                  *)
(*                                                                         *)
(* A unit vector is kept as its direction and its squared length:          *)
(* [dir |-> v, n2 |-> v.v] stands for v / sqrt(v.v).  Each file carries    *)
(* the number of the run that wrote it, and each indexed vector the id of  *)
(* the row it was made from; the code reads neither.                       *)
(***************************************************************************)
MaxItems == 2      \* rows of the embeddings table
MaxRuns  == 2      \* runs of build_faiss_index

NoIndex == [exists |-> FALSE, run |-> 0, d |-> 0, vecs |-> <<>>]
NoMap   == [exists |-> FALSE, run |-> 0, rows |-> <<>>]

RECURSIVE DotP(_, _)
DotP(a, b) == IF a = <<>> \/ b = <<>> THEN 0 ELSE a[1] * b[1] + DotP(Tail(a), Tail(b))

\* faiss.normalize_L2 on one row (a zero row is left as it is)
normalize_L2(v) == [dir |-> v, n2 |-> IF DotP(v, v) = 0 THEN 1 ELSE DotP(v, v)]

\* np.vstack raises on no rows and on rows of different lengths
VstackRaises(rows) ==
    \/ rows = <<>>
    \/ \E i, j \in 1..Len(rows) : Len(rows[i].embedding[1]) # Len(rows[j].embedding[1])

\* index.add(X) after normalize_L2(X): the vectors in the order of the rows
IndexOf(rows) ==
    [i \in 1..Len(rows) |-> [v |-> normalize_L2(rows[i].embedding[1]), src |-> rows[i].id]]

MapRow(r) ==
    [id |-> r.id, title |-> r.title, year |-> r.year, genres |-> r.genres,
     director |-> r.director, overview |-> r.overview, vote_average |-> r.vote_average,
     runtime |-> r.runtime]

\* the mapping without the rows that have no director
MappingOfDirected(rows) ==
    SelectRows([i \in 1..Len(rows) |-> MapRow(rows[i])],
               [i \in 1..Len(rows) |-> rows[i].director # <<>>])

\* df[[c for c in keep_cols if c in df.columns]].copy()
MappingOf(rows) == [i \in 1..Len(rows) |-> MapRow(rows[i])]

OnlyBuild == UNCHANGED <<fetchVars, featuresTable, epc, eattempt, embeddings, served, result, uiVars, rtVars>>

\* build_faiss_index up to and including faiss.write_index; a run that
\* np.vstack stops ends here with nothing written
BuildStart ==
    /\ bpc = "idle" /\ embeddingsTable.exists /\ run < MaxRuns
    /\ run' = run + 1
    /\ completed' = FALSE
    /\ LET rows == embeddingsTable.rows
       IN  IF VstackRaises(rows)
           THEN UNCHANGED <<bpc, pending, indexFile>>
           ELSE /\ indexFile' = [exists |-> TRUE, run |-> run + 1,
                                 d |-> Len(rows[1].embedding[1]), vecs |-> IndexOf(rows)]
                /\ pending' = MappingOf(rows)
                /\ bpc' = "indexed"
    /\ UNCHANGED <<mapFile, loaded, embeddingsTable>>
    /\ OnlyBuild

\* build_faiss_index from mapping.to_parquet to its return
BuildWriteMap ==
    /\ bpc = "indexed"
    /\ mapFile' = [exists |-> TRUE, run |-> run, rows |-> pending]
    /\ pending' = <<>>
    /\ bpc' = "idle"
    /\ completed' = TRUE
    /\ UNCHANGED <<run, indexFile, loaded, embeddingsTable>>
    /\ OnlyBuild

\* the run ends between the two writes: to_parquet raises, or the process is stopped
BuildInterrupt ==
    /\ bpc = "indexed"
    /\ pending' = <<>>
    /\ bpc' = "idle"
    /\ UNCHANGED <<run, completed, indexFile, mapFile, loaded, embeddingsTable>>
    /\ OnlyBuild

\* the row of the embeddings table for item i with vector v
EmbRow(i, v) ==
    WithEmbedding(FeatureRow(WithId(IF i % 2 = 1 THEN SampleRawA ELSE SampleRawB, i)), <<v>>)

\* the embeddings tables embeddings.main can write
EmbTables ==
    UNION {{File([i \in 1..n |-> EmbRow(i, t[i])]) : t \in [1..n -> Vecs]} : n \in 0..MaxItems}

\* embeddings.main ran again between two builds
EmbeddingsRerun ==
    /\ bpc = "idle" /\ run < MaxRuns
    /\ \E t \in EmbTables : embeddingsTable' = t
    /\ UNCHANGED <<bpc, run, pending, completed, indexFile, mapFile, loaded>>
    /\ OnlyBuild

\* load_index / load_index_and_mapping: both files, or the error
LoadFiles ==
    IF indexFile.exists /\ mapFile.exists
    THEN [state |-> "ok", index |-> indexFile, mapping |-> mapFile]
    ELSE [state |-> "missing", index |-> NoIndex, mapping |-> NoMap]

\* a query process starts and loads the two files
Load ==
    /\ loaded' = LoadFiles
    /\ UNCHANGED <<bpc, run, pending, completed, indexFile, mapFile, embeddingsTable>>
    /\ OnlyBuild

BuildNext == BuildStart \/ BuildWriteMap \/ BuildInterrupt \/ EmbeddingsRerun \/ Load

(***************************************************************************)
(* models/recommend.py recommend_by_text, app/streamlit_app.py recommend   *)
(*                                                                         *)
(* A similarity is [num, den, pad]: num / sqrt(den), the inner product of  *)
(* two unit vectors; pad marks the value faiss fills in where it has       *)
(* fewer than k vectors (the lowest float; its label is -1, here 0).       *)
(* Labels count from 1.                                                    *)
(***************************************************************************)
MaxK     == 3      \* largest k asked for
DefaultK == 6      \* streamlit_app.recommend(query, k=6)

QPayloads == {<<1, 0>>, <<0, 1>>, <<-1, -1>>, <<2>>, <<>>, <<1, NotANum>>}
QResponses == [shape : Shapes, payload : QPayloads]
\* no request made
NoResp == [shape |-> "none", payload |-> <<>>]

\* embed_query (the same text in both files): the optional array it returns.
\* np.array(..., dtype="float32") raises on an entry that is no number and on
\* an object that is no sequence; every exception ends in return None.
embed_query(resp) ==
    IF resp.shape \in {"obj_values", "dict_list"}
    THEN IF \A i \in 1..Len(resp.payload) : resp.payload[i] # NotANum
         THEN <<resp.payload>>
         ELSE NoVec
    ELSE NoVec

PadSim == [num |-> 0, den |-> 1, pad |-> TRUE]

\* the inner product of unit vectors a and b
InnerProduct(a, b) == [num |-> DotP(a.dir, b.dir), den |-> a.n2 * b.n2, pad |-> FALSE]

\* a < b as numbers
SimLess(a, b) ==
    IF a.pad \/ b.pad THEN a.pad /\ ~b.pad
    ELSE IF a.num < 0 /\ b.num >= 0 THEN TRUE
    ELSE IF a.num >= 0 /\ b.num < 0 THEN FALSE
    ELSE IF a.num >= 0 THEN a.num * a.num * b.den < b.num * b.num * a.den
    ELSE a.num * a.num * b.den > b.num * b.num * a.den

\* label i comes before label j in the result: greater product, then insertion order
Before(D, i, j) == SimLess(D[j], D[i]) \/ (~SimLess(D[i], D[j]) /\ i < j)

RECURSIVE Ranked(_, _)
\* the labels of S, best first
Ranked(D, S) ==
    IF S = {} THEN <<>>
    ELSE LET b == CHOOSE i \in S : \A j \in S \ {i} : Before(D, i, j)
         IN  <<b>> \o Ranked(D, S \ {b})

\* index.search(qvec, k) on an IndexFlatIP, for k > 0 and a query of the
\* index's dimension: k labels and k products, padded where ntotal < k
Search(index, qn, k) ==
    LET n == Len(index.vecs)
        D == [i \in 1..n |-> InnerProduct(index.vecs[i].v, qn)]
        order == Ranked(D, 1..n)
    IN  [I |-> [p \in 1..k |-> IF p <= n THEN order[p] ELSE 0],
         D |-> [p \in 1..k |-> IF p <= n THEN D[order[p]] ELSE PadSim]]

\* mapping.iloc[I[0]] raises on a position outside the frame
IlocRaises(rows, I) ==
    \E p \in 1..Len(I) : I[p] > Len(rows) \/ (I[p] = 0 /\ rows = <<>>)

\* mapping.iloc[label]: -1 is the last row
Iloc(rows, label) == IF label = 0 THEN Len(rows) ELSE label

\* recs = mapping.iloc[I[0]].copy(); recs["similarity"] = D[0]
Joined(rows, found) ==
    [p \in 1..Len(found.I) |->
        [label |-> Iloc(rows, found.I[p]), row |-> rows[Iloc(rows, found.I[p])],
         similarity |-> found.D[p]]]

\* results[["title", "year", "genres", "director", "similarity"]]
CliColumns(joined) ==
    [p \in 1..Len(joined) |->
        [label |-> joined[p].label,
         row |-> [title |-> joined[p].row.title, year |-> joined[p].row.year,
                  genres |-> joined[p].row.genres, director |-> joined[p].row.director],
         similarity |-> joined[p].similarity]]

\* The call from the load on.  outcome: "frame" (rows), "none" (None),
\* "stopped" (st.stop()), "raised" (an exception leaves the function).
\* asked, resp and qvec record the call of embed_query: whether it was made,
\* the service's answer, and the optional array it returned.
Recommended(entry, k, resp) ==
    LET files == LoadFiles
        qvec  == embed_query(resp)
        base  == [entry |-> entry, k |-> k, n |-> Len(files.index.vecs),
                  embedded |-> FALSE, searched |-> FALSE, outcome |-> "raised",
                  error |-> "none", rows |-> <<>>,
                  asked |-> TRUE, resp |-> resp, qvec |-> qvec]
    IN  IF files.state # "ok"
        THEN IF entry = "ui"
             THEN [base EXCEPT !.outcome = "stopped", !.asked = FALSE, !.resp = NoResp,
                               !.qvec = NoVec]
             ELSE [base EXCEPT !.error = "FileNotFoundError", !.asked = FALSE,
                               !.resp = NoResp, !.qvec = NoVec]
        ELSE IF qvec = NoVec
        THEN IF entry = "ui" THEN [base EXCEPT !.outcome = "frame"]
             ELSE [base EXCEPT !.outcome = "none"]
        ELSE IF Len(qvec[1]) # files.index.d \/ k <= 0
        THEN [base EXCEPT !.embedded = TRUE, !.searched = TRUE, !.error = "AssertionError"]
        ELSE LET found == Search(files.index, normalize_L2(qvec[1]), k)
             IN  IF IlocRaises(files.mapping.rows, found.I)
                 THEN [base EXCEPT !.embedded = TRUE, !.searched = TRUE, !.error = "IndexError"]
                 ELSE [base EXCEPT !.embedded = TRUE, !.searched = TRUE, !.outcome = "frame",
                                   !.rows = IF entry = "ui"
                                            THEN Joined(files.mapping.rows, found)
                                            ELSE CliColumns(Joined(files.mapping.rows, found))]

OnlyQuery == UNCHANGED <<fetchVars, featuresTable, embedVars, bpc, run, pending, completed,
                         indexFile, mapFile, loaded, uiVars, rtVars>>

\* streamlit_app.recommend(query, k)
RecommendUI ==
    /\ bpc = "idle"
    /\ \E k \in -1..MaxK, resp \in QResponses : result' = Recommended("ui", k, resp)
    /\ OnlyQuery

\* recommend.recommend_by_text(query, k)
RecommendCLI ==
    /\ bpc = "idle"
    /\ \E k \in -1..MaxK, resp \in QResponses : result' = Recommended("cli", k, resp)
    /\ OnlyQuery

QueryNext ==
    \/ BuildStart \/ BuildWriteMap
    \/ RecommendUI \/ RecommendCLI

(***************************************************************************)
(* app/streamlit_app.py: fmt_runtime                                       *)
(***************************************************************************)
MaxMinutes == 150     \* largest runtime tried, in minutes
EmDash == "--"        \* stands for the em dash (U+2014) shown for a missing value

\* What the argument can be: None, a string, NaN, an int, a float (in tenths).
RuntimeInputs ==
    {[kind |-> "none", v |-> 0], [kind |-> "str", v |-> 0], [kind |-> "nan", v |-> 0]}
    \cup [kind : {"int"}, v : -1..MaxMinutes]
    \cup [kind : {"float"}, v : {10 * n : n \in 0..MaxMinutes} \cup {5, 449, 1345}]

\* int(minutes): an int as it is, a float cut towards zero
IntOf(x) ==
    IF x.kind = "int" THEN x.v
    ELSE IF x.v >= 0 THEN x.v \div 10 ELSE -((-x.v) \div 10)

\* fmt_runtime with the test for whole hours first
HoursFirst(x) ==
    IF x.kind \in {"none", "str", "nan"} THEN EmDash
    ELSE LET h == IntOf(x) \div 60
             m == IntOf(x) % 60
         IN  IF h # 0 THEN ToString(h) \o "h"
             ELSE IF h # 0 /\ m # 0 THEN ToString(h) \o "h " \o ToString(m) \o "m"
             ELSE ToString(m) \o "m"

fmt_runtime(x) ==
    IF x.kind \in {"none", "str", "nan"} THEN EmDash
    ELSE LET h == IntOf(x) \div 60
             m == IntOf(x) % 60
         IN  IF h # 0 /\ m # 0 THEN ToString(h) \o "h " \o ToString(m) \o "m"
             ELSE IF h # 0 THEN ToString(h) \o "h"
             ELSE ToString(m) \o "m"

FmtRuntime ==
    /\ runtimeTxt = "unset"
    /\ runtimeTxt' = fmt_runtime(runtimeIn)
    /\ UNCHANGED <<fetchVars, featuresTable, embedVars, buildVars, result, uiVars, runtimeIn>>

RuntimeNext == FmtRuntime

(***************************************************************************)
(* app/streamlit_app.py: the page script                                   *)
(***************************************************************************)
Queries == {<<>>, <<" ">>, <<"s", "p", "y">>}

Why == <<"F", "i", "t", "s", ".">>
\* What model.generate_content(prompt) can come to: a text (one of them
\* only white space), an empty answer, an exception.
ExplainOutcomes ==
    {[kind |-> "text", text |-> Why], [kind |-> "text", text |-> <<" ">>],
     [kind |-> "empty", text |-> <<>>], [kind |-> "exception", text |-> <<>>]}

\* explain_recommendation: the optional text it returns
explain_recommendation(out) ==
    IF out.kind = "text" /\ out.text # <<>> THEN <<Strip(out.text)>> ELSE NoVec

\* row.get("runtime") of a float column: NaN where the value is missing
RuntimeCell(r) == IF r = -1 THEN [kind |-> "nan", v |-> 0] ELSE [kind |-> "float", v |-> 10 * r]

\* the card of one result row; rationale is <<>> when none is shown
Card(rec, explanation) ==
    [label |-> rec.label, title |-> rec.row.title, year |-> rec.row.year,
     runtime_txt |-> fmt_runtime(RuntimeCell(rec.row.runtime)),
     similarity |-> rec.similarity,
     rationale |-> IF explanation # NoVec /\ explanation[1] # <<>> THEN explanation ELSE NoVec]

OnlyUi == UNCHANGED <<fetchVars, featuresTable, embedVars, buildVars, result, rtVars>>

\* One run of the script up to the cards: the input, the trigger,
\* recommend(query), and the warning when the frame is empty.
Submit ==
    /\ upc = "input"
    /\ \E qt \in Queries, resp \in QResponses :
        /\ query' = qt
        /\ IF Strip(qt) = <<>>
           THEN upc' = "done" /\ UNCHANGED <<recs, warned>>
           ELSE LET r == Recommended("ui", DefaultK, resp)
                IN  /\ recs' = r.rows
                    /\ warned' = (r.outcome = "frame" /\ r.rows = <<>>)
                    /\ upc' = CASE r.outcome = "stopped" -> "stopped"
                                [] r.outcome = "raised" -> "crashed"
                                [] r.rows = <<>> -> "done"
                                [] OTHER -> "render"
    /\ UNCHANGED <<cards, explained>>
    /\ OnlyUi

\* the loop body, leaving the loop when the explanation fails
RenderCardAbort ==
    /\ upc = "render" /\ Len(cards) < Len(recs)
    /\ \E out \in ExplainOutcomes :
        IF explain_recommendation(out) = NoVec
        THEN upc' = "done" /\ UNCHANGED <<cards, explained>>
        ELSE /\ cards' = Append(cards, Card(recs[Len(cards) + 1], explain_recommendation(out)))
             /\ explained' = Append(explained, <<out.kind>>)
             /\ upc' = IF Len(cards) + 1 = Len(recs) THEN "done" ELSE "render"
    /\ UNCHANGED <<query, recs, warned>>
    /\ OnlyUi

\* the loop body for the next row of recs: the card, with one explanation request
RenderCard ==
    /\ upc = "render" /\ Len(cards) < Len(recs)
    /\ \E out \in ExplainOutcomes :
        /\ cards' = Append(cards, Card(recs[Len(cards) + 1], explain_recommendation(out)))
        /\ explained' = Append(explained, <<out.kind>>)
    /\ upc' = IF Len(cards) + 1 = Len(recs) THEN "done" ELSE "render"
    /\ UNCHANGED <<query, recs, warned>>
    /\ OnlyUi

UiNext == Submit \/ RenderCard

EmbedIdle ==
    /\ epc = "idle" /\ eattempt = 0 /\ embeddings = <<>> /\ served = <<>>
BuildIdle ==
    /\ bpc = "idle" /\ run = 0 /\ pending = <<>> /\ completed = FALSE
    /\ indexFile = NoIndex /\ mapFile = NoMap
    /\ loaded = [state |-> "none", index |-> NoIndex, mapping |-> NoMap]
NoResult ==
    [entry |-> "none", k |-> 0, n |-> 0, embedded |-> FALSE, searched |-> FALSE,
     outcome |-> "unset", error |-> "none", rows |-> <<>>,
     asked |-> FALSE, resp |-> NoResp, qvec |-> NoVec]
QueryIdle == result = NoResult
UiIdle ==
    /\ upc = "idle" /\ query = <<>> /\ recs = <<>> /\ cards = <<>> /\ explained = <<>>
    /\ warned = FALSE
RtIdle == runtimeIn = [kind |-> "none", v |-> 0] /\ runtimeTxt = "unset"

FeaturesInit ==
    /\ FetchIdle /\ \E n \in 0..MaxRaw : rawTable \in RawTables(n)
    /\ featuresTable = NoTable
    /\ EmbedIdle /\ embeddingsTable = NoTable /\ BuildIdle /\ QueryIdle /\ UiIdle /\ RtIdle

FeaturesNext == FeaturesMain

SpecFeatures == FeaturesInit /\ [][FeaturesNext]_vars

FetchInitAll ==
    /\ FetchInit /\ featuresTable = NoTable
    /\ EmbedIdle /\ embeddingsTable = NoTable /\ BuildIdle /\ QueryIdle /\ UiIdle /\ RtIdle

SpecFetch == FetchInitAll /\ [][FetchNext]_vars

\* fetch_tmdb.py, features.py, embeddings.py, vector_index.py run in this
\* order, each once its input is there
PipelineNext ==
    \/ FetchGenres \/ FetchPage \/ EnrichSkip \/ EnrichDetail \/ EnrichCredits \/ WriteRaw
    \/ FeaturesMain
    \/ EmbedStart \/ EmbedOne \/ EmbedFinish
    \/ BuildStart \/ BuildWriteMap

SpecPipeline == FetchInitAll /\ [][PipelineNext]_vars

EmbedInit ==
    /\ FetchIdle /\ rawTable = NoTable
    /\ featuresTable \in FeatureTables
    /\ EmbedIdle /\ embeddingsTable = NoTable /\ BuildIdle /\ QueryIdle /\ UiIdle /\ RtIdle

SpecEmbed == EmbedInit /\ [][EmbedNext]_vars

BuildInit ==
    /\ FetchIdle /\ rawTable = NoTable /\ featuresTable = NoTable
    /\ EmbedIdle /\ embeddingsTable \in EmbTables
    /\ BuildIdle /\ QueryIdle /\ UiIdle /\ RtIdle

SpecBuild == BuildInit /\ [][BuildNext]_vars

SpecQuery == BuildInit /\ [][QueryNext]_vars

RuntimeInit ==
    /\ FetchIdle /\ rawTable = NoTable /\ featuresTable = NoTable
    /\ EmbedIdle /\ embeddingsTable = NoTable /\ BuildIdle /\ QueryIdle /\ UiIdle
    /\ runtimeIn \in RuntimeInputs /\ runtimeTxt = "unset"

SpecRuntime == RuntimeInit /\ [][RuntimeNext]_vars

\* the page is opened with the files of a finished build, or with none
UiInit ==
    /\ FetchIdle /\ rawTable = NoTable /\ featuresTable = NoTable
    /\ EmbedIdle /\ embeddingsTable \in EmbTables
    /\ bpc = "idle" /\ pending = <<>>
    /\ loaded = [state |-> "none", index |-> NoIndex, mapping |-> NoMap]
    /\ \/ /\ ~VstackRaises(embeddingsTable.rows)
          /\ run = 1 /\ completed = TRUE
          /\ indexFile = [exists |-> TRUE, run |-> 1,
                          d |-> Len(embeddingsTable.rows[1].embedding[1]),
                          vecs |-> IndexOf(embeddingsTable.rows)]
          /\ mapFile = [exists |-> TRUE, run |-> 1, rows |-> MappingOf(embeddingsTable.rows)]
       \/ /\ run = 0 /\ completed = FALSE /\ indexFile = NoIndex /\ mapFile = NoMap
    /\ QueryIdle /\ RtIdle
    /\ upc = "input" /\ query = <<>> /\ recs = <<>> /\ cards = <<>> /\ explained = <<>>
    /\ warned = FALSE

SpecUI == UiInit /\ [][UiNext]_vars

(***************************************************************************)
(* Claims                                                                  *)
(***************************************************************************)
Min(a, b) == IF a < b THEN a ELSE b

\* the requests of the call that failed, counted from its log
Failures(c, Ok(_)) == Cardinality({i \in 1..Len(c.outcomes) : ~Ok(c.outcomes[i])})

\* The statement of C8 about tmdb_get and main, with `Ok` saying which
\* answers count as successful.
RetryContract(Ok(_)) ==
    /\ Len(call.outcomes) <= 3
    /\ \A i \in 1..Len(call.outcomes) : Ok(call.outcomes[i]) => i = Len(call.outcomes)
    /\ call.state = "returned" <=>
           (call.outcomes # <<>> /\ Ok(call.outcomes[Len(call.outcomes)]))
    /\ call.state = "raised" <=>
           (Len(call.outcomes) = 3 /\ \A i \in 1..3 : ~Ok(call.outcomes[i]))
    /\ call.sleeps = [n \in 1..Failures(call, Ok) |-> 15 * n]
    /\ (call.state = "raised" /\ call.site \in {"genres", "page"}) => fpc = "halted"
    /\ fpc = "halted" => (~rawTable.exists /\ ~rawParquet.exists /\ ~ENABLED FetchNext)

Http200(o) == o \in {"ok", "badjson"}
Decoded(o) == o = "ok"

\* C8 as stated: a request is attempted at most 3 times, the first HTTP 200
\* answer is returned with no further attempt, the n-th failure is followed
\* by a wait of 1.5 s x n, the third failure by an error; the error on the
\* genre list or a list page halts the run with no raw table written.
C8_Original == RetryContract(Http200)

\* C8 amended: the same, where the answer returned is the first HTTP 200
\* answer whose body decodes as JSON, and an HTTP 200 answer whose body does
\* not decode counts as a failed attempt.
C8_Retry == RetryContract(Decoded)

\* the second list page gave up after three failures, the first had succeeded
C8_Witness ==
    /\ call.state = "raised" /\ call.site = "page" /\ fpc = "halted"
    /\ movies # <<>> /\ call.sleeps = <<15, 30, 45>>

\* the blob length the claim speaks of: that of the blob built from the cleaned columns
BlobLen(raw) == Len(build_text_blob(Cleaned(raw)))

InFeatures(id) == \E j \in 1..Len(featuresTable.rows) : featuresTable.rows[j].id = id

\* C6: features.main keeps an item if and only if its text blob, built from
\* the cleaned title, overview, genres, cast and director, is longer than 30
\* characters; every kept item has a non-empty blob.
C6_Threshold ==
    featuresTable.exists =>
        /\ \A i \in 1..Len(rawTable.rows) :
              InFeatures(rawTable.rows[i].id) <=> BlobLen(rawTable.rows[i]) > 30
        /\ \A j \in 1..Len(featuresTable.rows) :
              /\ featuresTable.rows[j].text_blob # <<>>
              /\ \E i \in 1..Len(rawTable.rows) :
                    /\ rawTable.rows[i].id = featuresTable.rows[j].id
                    /\ featuresTable.rows[j].text_blob = build_text_blob(Cleaned(rawTable.rows[i]))

\* a blob of exactly 30 characters was dropped and one of 31 was kept
C6_Witness ==
    /\ featuresTable.exists /\ Len(rawTable.rows) = 2
    /\ BlobLen(rawTable.rows[1]) = 30 /\ ~InFeatures(1)
    /\ BlobLen(rawTable.rows[2]) = 31 /\ InFeatures(2)

Occurrences(rows, id) == Cardinality({j \in 1..Len(rows) : rows[j].id = id})

\* C5: when embeddings.main has written its table, an item of the feature
\* table is absent from it exactly when no request made for it gave a
\* well-formed vector; every other item is there once, with the vector the
\* service gave for its own text, and the items keep their order.
C5_Dropped ==
    epc = "done" =>
        LET rows == featuresTable.rows
            out  == embeddingsTable.rows
        IN  /\ Len(served) = Len(rows)
            /\ \A i \in 1..Len(rows) :
                  Occurrences(out, rows[i].id) = IF served[i] = NoVec THEN 0 ELSE 1
            /\ \A j \in 1..Len(out) :
                  \E i \in 1..Len(rows) :
                      /\ rows[i].id = out[j].id
                      /\ out[j].text_blob = rows[i].text_blob
                      /\ out[j].embedding = served[i]
                      /\ WellFormed(out[j].embedding)
            /\ \A j, l \in 1..Len(out) : j < l => out[j].id < out[l].id

\* the first of two items was dropped after its requests failed, the second kept
C5_Witness ==
    /\ epc = "done" /\ Len(featuresTable.rows) = 2
    /\ Len(embeddingsTable.rows) = 1 /\ embeddingsTable.rows[1].id = 2
    /\ served = <<NoVec, <<(<<1, 1>>)>> >>

\* what a run that returned leaves, for the table it read
BuildPost(table, index, mapping) ==
    /\ index.exists /\ mapping.exists
    /\ Len(index.vecs) = Len(table.rows)
    /\ Len(mapping.rows) = Len(table.rows)
    /\ \A i \in 1..Len(table.rows) :
          /\ index.vecs[i].src = table.rows[i].id
          /\ index.vecs[i].v.dir = table.rows[i].embedding[1]
          /\ mapping.rows[i].id = index.vecs[i].src
          /\ mapping.rows[i].title = table.rows[i].title

\* C2: when build_faiss_index returns, on a table of N rows, the index file
\* holds N vectors and the sidecar N rows, and row i of the sidecar is the
\* metadata of the item whose embedding is the i-th vector of the index.
C2_Aligned ==
    [][(bpc = "indexed" /\ bpc' = "idle" /\ completed')
          => BuildPost(embeddingsTable, indexFile, mapFile)']_vars

\* a second run returned, on a table of two rows
C2_Witness ==
    /\ completed /\ run = 2 /\ bpc = "idle"
    /\ Len(mapFile.rows) = 2 /\ Len(indexFile.vecs) = 2 /\ mapFile.run = 2

\* C3: the index file and the sidecar on disk always come from the same
\* build run, also after a run that ended between the two writes, and a
\* query that loads both never joins the vectors of one run to the rows of
\* another.
C3_SameRun ==
    /\ (bpc = "idle" /\ indexFile.exists /\ mapFile.exists) => indexFile.run = mapFile.run
    /\ loaded.state = "ok" => loaded.index.run = loaded.mapping.run

\* C1: a recommend call with k >= 1 on an index of N >= 1 items, whose query
\* is embedded, returns at most min(k, N) rows, each a different indexed
\* item, with similarities that do not increase; with k > N it returns N rows.
C1_AtMostMin ==
    (result.outcome = "frame" /\ result.embedded /\ result.k >= 1 /\ result.n >= 1) =>
        /\ Len(result.rows) <= Min(result.k, result.n)
        /\ \A p, r \in 1..Len(result.rows) :
              p < r => /\ result.rows[p].label # result.rows[r].label
                       /\ ~SimLess(result.rows[p].similarity, result.rows[r].similarity)
        /\ result.k > result.n => Len(result.rows) = result.n

\* C4: when the files are loaded and the query is not embedded, recommend
\* (UI) and recommend_by_text (CLI) return an empty result: nothing is
\* raised, nothing is searched.
C4_EmptyResult ==
    (result.entry # "none" /\ result.outcome \notin {"stopped"}
        /\ result.error # "FileNotFoundError" /\ ~result.embedded) =>
        /\ result.outcome = "frame" /\ result.rows = <<>>
        /\ ~result.searched

\* C9: with the files loaded, a recommend call with k <= 0 fails with an
\* error and returns no rows.
C9_RejectsK ==
    (result.entry # "none" /\ result.outcome \notin {"stopped"}
        /\ result.error # "FileNotFoundError" /\ result.k <= 0) =>
        /\ result.outcome = "raised" /\ result.rows = <<>>

ExpectedRuntime(n) ==
    LET h == n \div 60
        m == n % 60
    IN  IF h > 0 /\ m > 0 THEN ToString(h) \o "h " \o ToString(m) \o "m"
        ELSE IF h > 0 /\ m = 0 THEN ToString(h) \o "h"
        ELSE ToString(m) \o "m"

C10_Cards ==
    upc \in {"render", "done"} =>
        /\ Len(cards) <= Len(recs)
        /\ Len(explained) = Len(cards)
        /\ \A i \in 1..Len(cards) :
              /\ cards[i] = [Card(recs[i], NoVec) EXCEPT !.rationale = cards[i].rationale]
              /\ Len(explained[i]) = 1
              /\ explained[i][1] \in {"exception", "empty"} => cards[i].rationale = NoVec
        /\ upc = "done" => Len(cards) = Len(recs)
        /\ upc = "render" => ENABLED RenderCard

\* all six cards are there; the first explanation raised, the second came back
C10_Witness ==
    /\ upc = "done" /\ Len(cards) = 6
    /\ explained[1] = <<"exception">> /\ cards[1].rationale = NoVec
    /\ explained[2] = <<"text">> /\ cards[2].rationale = <<Why>>
    /\ explained[3] = <<"empty">> /\ cards[3].rationale = NoVec

\* the build-time extraction takes the answer: _extract_vector returns, and
\* _is_vector_ok passes what it returned
BuildAccepts(resp) ==
    /\ resp.shape # "raise" /\ ~ExtractRaises(resp)
    /\ _is_vector_ok(_extract_vector(resp))

\* C11: whenever a recommend call (UI or CLI) has asked the embedding service,
\* embed_query returns the very vector the build-time extraction takes from
\* the same answer, and returns no vector for an answer the build-time
\* extraction rejects.
C11_SameEmbedding ==
    result.asked =>
        IF BuildAccepts(result.resp)
        THEN result.qvec = _extract_vector(result.resp)
        ELSE result.qvec = NoVec


\* enrich_movie returned {} for this row of the movies table: on success
\* genres is ", ".join(...), a string; on failure extra.get("genres") is None
EnrichFailed(r) == r.genres = NoneT

Ids(rows) == {rows[i].id : i \in 1..Len(rows)}

\* C12: a failed detail or credits request of one movie does not stop the
\* fetch run, and a movie whose enrichment failed is in none of the feature
\* table, the embeddings table and the index sidecar, whatever its title.
C12_FailedExcluded ==
    /\ (call.site \in {"detail", "credits"} /\ call.state = "raised") => fpc # "halted"
    /\ \A i \in 1..Len(rawTable.rows) :
          EnrichFailed(rawTable.rows[i]) =>
              /\ rawTable.rows[i].id \notin Ids(featuresTable.rows)
              /\ rawTable.rows[i].id \notin Ids(embeddingsTable.rows)
              /\ rawTable.rows[i].id \notin Ids(mapFile.rows)

====
